---- MODULE Spec2Model ----
(***************************************************************************)
(* Model of the command adapters of pyrogram:                              *)
(*   methods/messages/translate_text.py                                    *)
(*       TranslateText.translate_message_text, TranslateText.translate_text*)
(*   methods/invite_links/edit_chat_invite_link.py                         *)
(*       EditChatInviteLink.edit_chat_invite_link                          *)
(* and of the MessageOrigin variant family registered in                   *)
(*   types/messages_and_media/__init__.py.                                 *)
(*                                                                         *)
(* One call is followed from its invocation to its return or raise.  Each  *)
(* await of the source is a step of its own, so that the order of peer     *)
(* resolution, request construction, transport call and parsing is         *)
(* visible in the state.                                                   *)
(*                                                                         *)
(* Python values: None is the empty tuple, a present optional value v is   *)
(* the one-element tuple <<v>>.                                            *)
(***************************************************************************)
EXTENDS Integers, Sequences, FiniteSets, TLC

VARIABLES
    pc,             \* position of the running call
    op,             \* which adapter is running
    args,           \* the arguments of the call
    ids,            \* local `ids` of translate_message_text
    parsedText,     \* local (message, entities) of translate_text
    peer,           \* value of `await self.resolve_peer(chat_id)`
    request,        \* the raw request handed to invoke
    response,       \* local `r`
    parsed,         \* typed objects built so far by _parse
    ret,            \* value returned to the caller
    err,            \* exception that reached the caller
    fault,          \* exception raised by a collaborator, and the stage
    resolveCalls,   \* resolve_peer calls made by the running call
    requestsBuilt,  \* raw requests constructed by the running call
    invokeCalls,    \* invoke calls made by the running call
    prev,           \* the call just before, when it was an edit_chat_invite_link
    originRaw,      \* raw payload handed to the MessageOrigin parser
    originUsers,    \* auxiliary users table handed to the parser
    originOut       \* outcome of the MessageOrigin parser

adapterVars == <<pc, op, args, ids, parsedText, peer, request, response,
                 parsed, ret, err, fault, resolveCalls, requestsBuilt,
                 invokeCalls, prev>>
originVars == <<originRaw, originUsers, originOut>>
vars == <<pc, op, args, ids, parsedText, peer, request, response, parsed,
          ret, err, fault, resolveCalls, requestsBuilt, invokeCalls, prev,
          originRaw, originUsers, originOut>>

----------------------------------------------------------------------------
(* Bounds *)

NumMsgIds == 2
MaxIds == 2
MaxResults == 2
NumChats == 2
NumUsers == 2

----------------------------------------------------------------------------
(* Python values *)

None == <<>>
Some(v) == <<v>>

MsgIds == 1..NumMsgIds
ChatIds == 1..NumChats
UserIds == 1..NumUsers

RECURSIVE SeqsUpTo(_, _)
SeqsUpTo(S, n) ==
    IF n = 0 THEN {<<>>}
    ELSE LET shorter == SeqsUpTo(S, n - 1)
         IN  shorter \cup {Append(s, x) : s \in {t \in shorter : Len(t) = n - 1}, x \in S}

\* message_ids: Union[int, list[int]]
IntArg(m) == [isList |-> FALSE, int |-> m, items |-> <<>>]
ListArg(s) == [isList |-> TRUE, int |-> 0, items |-> s]
MessageIdsArgs == {IntArg(m) : m \in MsgIds} \cup {ListArg(s) : s \in SeqsUpTo(MsgIds, MaxIds)}

\* the value a call hands back: nothing yet, one object, or a list
NoValue == [kind |-> "none", obj |-> None, items |-> <<>>]
Object(x) == [kind |-> "object", obj |-> Some(x), items |-> <<>>]
List(s) == [kind |-> "list", obj |-> None, items |-> s]

NoFault == [stage |-> "none", error |-> "none"]

----------------------------------------------------------------------------
(* translate_text.py *)

\* variant: the ids are put in ascending order before they are sent
IdsOfSorted(message_ids) ==
    IF ~message_ids.isList THEN <<message_ids.int>>
    ELSE SortSeq(message_ids.items, LAMBDA a, b : a < b)

\* variant: only the first id of a list is sent
IdsOfFirst(message_ids) ==
    IF ~message_ids.isList THEN <<message_ids.int>>
    ELSE IF message_ids.items = <<>> THEN <<>> ELSE <<message_ids.items[1]>>

\* ids = [message_ids] if not isinstance(message_ids, list) else message_ids
IdsOf(message_ids) ==
    IF ~message_ids.isList THEN <<message_ids.int>> ELSE message_ids.items

\* raw.functions.messages.TranslateText(to_lang=..., peer=..., id=ids)
TranslateMessagesRequest(to_lang, p, idList) ==
    [fn |-> "messages.TranslateText", to_lang |-> to_lang, peer |-> Some(p),
     id |-> idList, text |-> <<>>]

\* entities or []
OrEmpty(e) == IF e = None \/ e = Some(<<>>) THEN <<>> ELSE e[1]

\* raw.types.TextWithEntities(text=message, entities=entities or [])
TextWithEntities(message, entities) ==
    [text |-> message, entities |-> OrEmpty(entities)]

\* raw.functions.messages.TranslateText(to_lang=..., text=[TextWithEntities])
TranslateTextRequest(to_lang, message, entities) ==
    [fn |-> "messages.TranslateText", to_lang |-> to_lang, peer |-> None,
     id |-> <<>>, text |-> <<TextWithEntities(message, entities)>>]

\* types.TranslatedText._parse(self, raw)
TranslatedText_parse(raw) == [type |-> "TranslatedText", of |-> raw.of]

\* variant: the results are always handed back as a list
DewrapAlwaysList(parsedResults) == List(parsedResults)

\* variant: the shape follows isinstance(message_ids, list)
DewrapByInput(parsedResults) ==
    IF op = "translate_message_text" /\ args.message_ids.isList
    THEN List(parsedResults)
    ELSE IF Len(parsedResults) >= 1 THEN Object(parsedResults[1]) ELSE List(parsedResults)

\* the conditional expression of the return statement: the shape follows
\* len(r.result), the caller's message_ids is not consulted
Dewrap(parsedResults) ==
    IF Len(parsedResults) = 1 THEN Object(parsedResults[1]) ELSE List(parsedResults)

\* utils.parse_text_entities(self, text, parse_mode, entities)
parse_text_entities(text, parse_mode, entities) ==
    IF OrEmpty(entities) # <<>>
    THEN [message |-> text, entities |-> entities]
    ELSE IF text = "**hi**"
         THEN [message |-> "hi", entities |-> Some(<<"bold">>)]
         ELSE [message |-> text, entities |-> None]

----------------------------------------------------------------------------
(* edit_chat_invite_link.py *)

\* datetime values: whole seconds since the epoch and microseconds
Datetimes == {[sec |-> 100, usec |-> 0], [sec |-> 200, usec |-> 500000]}

\* utils.datetime_to_timestamp(expire_date)
datetime_to_timestamp(dt) == IF dt = None THEN None ELSE Some(dt[1].sec)

\* The expire_date argument a caller passes for each intent: the parameter
\* defaults to None, and the docstring names None as the value that sets
\* no expiration date.
ExpireDateArg(intent, d) ==
    CASE intent = "absent" -> None
      [] intent = "clear" -> None
      [] intent = "value" -> Some(d)

\* member_limit: None (default), 0 (no limit), a value in 1-99999, or a
\* value outside that range
MemberLimits == {None, Some(0), Some(5), Some(100000)}

\* name and creates_join_request: both left out, or one of them given
LinkAttributes ==
    {[name |-> None, creates_join_request |-> None],
     [name |-> Some("VIP"), creates_join_request |-> None],
     [name |-> None, creates_join_request |-> Some(TRUE)]}

\* variant: usage_limit=member_limit or None
EditExportedChatInviteFalsyLimit(p, a) ==
    [fn |-> "messages.EditExportedChatInvite",
     peer |-> Some(p),
     link |-> a.invite_link,
     expire_date |-> datetime_to_timestamp(a.expire_date),
     usage_limit |-> IF a.member_limit = Some(0) THEN None ELSE a.member_limit,
     title |-> a.name,
     request_needed |-> a.creates_join_request]

\* raw.functions.messages.EditExportedChatInvite(...)
EditExportedChatInvite(p, a) ==
    [fn |-> "messages.EditExportedChatInvite",
     peer |-> Some(p),
     link |-> a.invite_link,
     expire_date |-> datetime_to_timestamp(a.expire_date),
     usage_limit |-> a.member_limit,
     title |-> a.name,
     request_needed |-> a.creates_join_request]

\* users = {i.id: i for i in r.users}
UsersById(us) ==
    [k \in {us[i].id : i \in DOMAIN us} |->
        us[CHOOSE i \in DOMAIN us :
              /\ us[i].id = k
              /\ \A j \in DOMAIN us : us[j].id = k => j <= i]]

\* types.ChatInviteLink._parse(self, r.invite, users)
ChatInviteLink_parse(invite, users) ==
    [type |-> "ChatInviteLink",
     invite_link |-> invite.link,
     creator |-> IF invite.admin_id \in DOMAIN users
                 THEN Some(users[invite.admin_id]) ELSE None]

----------------------------------------------------------------------------
(* Collaborators: resolve_peer, invoke *)

ResolveErrors == {"PeerIdInvalid", "UsernameNotOccupied"}
InvokeErrors == {"FloodWait", "ChatAdminRequired"}
ParseErrors == {"AttributeError"}
EntityErrors == {"ValueError"}

\* self.resolve_peer(chat_id) on success
resolve_peer(chat_id) == [input_peer |-> chat_id]

\* one raw result of messages.TranslateResult: the translation of message
\* k, or of the supplied text when k = 0
RawResults == {[of |-> k] : k \in 0..NumMsgIds}

\* any messages.TranslateResult the transport can hand back
AnyTranslateResults == {[result |-> s] : s \in SeqsUpTo(RawResults, MaxResults)}

\* the messages.TranslateResult of a server that answers the request item
\* by item: one result per requested id, or per supplied text, in order
FaithfulTranslateResult(req) ==
    IF req.peer # None
    THEN [result |-> [i \in 1..Len(req.id) |-> [of |-> req.id[i]]]]
    ELSE [result |-> [i \in 1..Len(req.text) |-> [of |-> 0]]]

\* the messages.ExportedChatInvite answers to an edit request
EditResponses(req) ==
    {[invite |-> [link |-> req.link, admin_id |-> u],
      users |-> <<[id |-> u]>>] : u \in UserIds}

\* variant: the exception is caught and another one is raised in its place
PropagateWrapped(e) == "RuntimeError"

\* no adapter has a try/except: an exception of a collaborator reaches the
\* caller as it is
Propagate(e) == e

----------------------------------------------------------------------------
(* The MessageOrigin variant family *)

\* variant: the import variant is not registered
RegisteredVariantsNoImport ==
    {"MessageOriginChannel", "MessageOriginChat", "MessageOriginHiddenUser",
     "MessageOriginUser"}

\* the variants imported next to MessageOrigin
RegisteredVariants ==
    {"MessageOriginChannel", "MessageOriginChat", "MessageOriginHiddenUser",
     "MessageOriginImport", "MessageOriginUser"}

\* concrete raw shapes a payload can have; the last one is outside the family
RawOriginShapes == {"channel", "chat", "hiddenUser", "user", "import", "unknown"}

\* the variant written for a raw shape
VariantOf(shape) ==
    CASE shape = "channel" -> "MessageOriginChannel"
      [] shape = "chat" -> "MessageOriginChat"
      [] shape = "hiddenUser" -> "MessageOriginHiddenUser"
      [] shape = "user" -> "MessageOriginUser"
      [] shape = "import" -> "MessageOriginImport"
      [] OTHER -> "none"

Raised(e) == [kind |-> "raised", obj |-> Some(e), items |-> <<>>]

\* MessageOrigin._parse(client, raw, users): dispatch on the concrete shape
\* of the payload; a shape without a registered variant is an error
MessageOrigin_parse(raw, users) ==
    IF VariantOf(raw.shape) \in RegisteredVariants
    THEN Object([type |-> VariantOf(raw.shape),
                 date |-> raw.date,
                 sender_user |-> IF raw.shape = "user" /\ raw.sender_id \in DOMAIN users
                                 THEN Some(users[raw.sender_id]) ELSE None])
    ELSE Raised("ValueError")

RawOrigins ==
    {[shape |-> sh, date |-> d, sender_id |-> u] :
        sh \in RawOriginShapes, d \in {10, 20}, u \in UserIds}

UserTables == UNION {[S -> {"Ann", "Bob"}] : S \in SUBSET UserIds}

----------------------------------------------------------------------------
(* State after construction: no call is running *)

NoArgs == [none |-> TRUE]
NoPrev == <<>>

IdleLocals ==
    /\ ids = <<>>
    /\ parsedText = None
    /\ peer = None
    /\ request = None
    /\ response = None
    /\ parsed = <<>>
    /\ ret = NoValue
    /\ err = None
    /\ fault = NoFault
    /\ resolveCalls = 0
    /\ requestsBuilt = 0
    /\ invokeCalls = 0

Init ==
    /\ pc = "idle"
    /\ op = "none"
    /\ args = NoArgs
    /\ IdleLocals
    /\ prev = NoPrev
    /\ originRaw = None
    /\ originUsers = <<>>
    /\ originOut = NoValue

----------------------------------------------------------------------------
(* Control flow shared by the adapters *)

\* the first await of each adapter: resolve_peer for the two adapters that
\* take a chat_id, parse_text_entities for translate_text
FirstStep(o) == IF o = "translate_text" THEN "entities" ELSE "resolve"

\* an exception leaves the coroutine: nothing is returned
Raise(stage, e) ==
    /\ fault' = [stage |-> stage, error |-> e]
    /\ err' = Some(Propagate(e))
    /\ ret' = NoValue
    /\ pc' = "done"

StartCall(o, a) ==
    /\ pc = "idle"
    /\ op' = o
    /\ args' = a
    /\ pc' = FirstStep(o)
    /\ prev' = IF o = "edit_chat_invite_link" THEN prev ELSE NoPrev
    /\ UNCHANGED <<parsedText, peer, request, response, parsed, ret, err,
                   fault, resolveCalls, requestsBuilt, invokeCalls, originVars>>

----------------------------------------------------------------------------
(* Calls *)

translate_message_text ==
    \E chat \in ChatIds, mids \in MessageIdsArgs :
        /\ StartCall("translate_message_text",
                     [to_language_code |-> "en", chat_id |-> chat, message_ids |-> mids])
        /\ ids' = IdsOf(mids)

translate_text ==
    \E text \in {"hi", "**hi**"}, entities \in {None, Some(<<"italic">>)} :
        /\ StartCall("translate_text",
                     [to_language_code |-> "fa", text |-> text,
                      parse_mode |-> None, entities |-> entities])
        /\ ids' = <<>>

edit_chat_invite_link ==
    \E chat \in ChatIds, attrs \in LinkAttributes,
       intent \in {"absent", "clear", "value"}, d \in Datetimes,
       limit \in MemberLimits :
        /\ intent # "value" => d = CHOOSE x \in Datetimes : TRUE
        /\ StartCall("edit_chat_invite_link",
                     [chat_id |-> chat, invite_link |-> "t.me/+abc",
                      name |-> attrs.name,
                      expire_intent |-> intent,
                      expire_date |-> ExpireDateArg(intent, d),
                      member_limit |-> limit,
                      creates_join_request |-> attrs.creates_join_request])
        /\ ids' = <<>>

----------------------------------------------------------------------------
(* Steps before the transport call *)

\* variant: the peer is resolved once to validate it and once for the request
resolve_peer_twice ==
    /\ pc = "resolve"
    /\ resolveCalls' = resolveCalls + 2
    /\ peer' = Some(resolve_peer(args.chat_id))
    /\ pc' = "build"
    /\ UNCHANGED <<op, args, ids, parsedText, request, response, parsed, ret,
                   err, fault, requestsBuilt, invokeCalls, prev, originVars>>

resolve_peer_ok ==
    /\ pc = "resolve"
    /\ resolveCalls' = resolveCalls + 1
    /\ peer' = Some(resolve_peer(args.chat_id))
    /\ pc' = "build"
    /\ UNCHANGED <<op, args, ids, parsedText, request, response, parsed, ret,
                   err, fault, requestsBuilt, invokeCalls, prev, originVars>>

resolve_peer_raises ==
    /\ pc = "resolve"
    /\ resolveCalls' = resolveCalls + 1
    /\ \E e \in ResolveErrors : Raise("resolve", e)
    /\ UNCHANGED <<op, args, ids, parsedText, peer, request, response, parsed,
                   requestsBuilt, invokeCalls, prev, originVars>>

parse_text_entities_ok ==
    /\ pc = "entities"
    /\ parsedText' = Some(parse_text_entities(args.text, args.parse_mode, args.entities))
    /\ pc' = "build"
    /\ UNCHANGED <<op, args, ids, peer, request, response, parsed, ret, err,
                   fault, resolveCalls, requestsBuilt, invokeCalls, prev, originVars>>

parse_text_entities_raises ==
    /\ pc = "entities"
    /\ \E e \in EntityErrors : Raise("entities", e)
    /\ UNCHANGED <<op, args, ids, parsedText, peer, request, response, parsed,
                   resolveCalls, requestsBuilt, invokeCalls, prev, originVars>>

\* the raw request of the running adapter
RawRequest ==
    CASE op = "translate_message_text" ->
            TranslateMessagesRequest(args.to_language_code, peer[1], ids)
      [] op = "translate_text" ->
            TranslateTextRequest(args.to_language_code, parsedText[1].message,
                                 parsedText[1].entities)
      [] op = "edit_chat_invite_link" ->
            EditExportedChatInvite(peer[1], args)

build_request ==
    /\ pc = "build"
    /\ request' = Some(RawRequest)
    /\ requestsBuilt' = requestsBuilt + 1
    /\ pc' = "invoke"
    /\ UNCHANGED <<op, args, ids, parsedText, peer, response, parsed, ret, err,
                   fault, resolveCalls, invokeCalls, prev, originVars>>

----------------------------------------------------------------------------
(* The transport call *)

InvokeReturns(r) ==
    /\ pc = "invoke"
    /\ invokeCalls' = invokeCalls + 1
    /\ response' = Some(r)
    /\ pc' = "parse"
    /\ UNCHANGED <<op, args, ids, parsedText, peer, request, parsed, ret, err,
                   fault, resolveCalls, requestsBuilt, prev, originVars>>

\* invoke answers a translation request with any messages.TranslateResult
invoke_translate_ok ==
    /\ op \in {"translate_message_text", "translate_text"}
    /\ \E r \in AnyTranslateResults : InvokeReturns(r)

\* invoke answers a translation request item by item
invoke_translate_faithful ==
    /\ op \in {"translate_message_text", "translate_text"}
    /\ pc = "invoke"
    /\ InvokeReturns(FaithfulTranslateResult(request[1]))

invoke_edit_ok ==
    /\ op = "edit_chat_invite_link"
    /\ pc = "invoke"
    /\ \E r \in EditResponses(request[1]) : InvokeReturns(r)

invoke_raises ==
    /\ pc = "invoke"
    /\ invokeCalls' = invokeCalls + 1
    /\ \E e \in InvokeErrors : Raise("invoke", e)
    /\ UNCHANGED <<op, args, ids, parsedText, peer, request, response, parsed,
                   resolveCalls, requestsBuilt, prev, originVars>>

----------------------------------------------------------------------------
(* Parsing the response and returning *)

IsTranslate == op \in {"translate_message_text", "translate_text"}

\* one types.TranslatedText._parse(self, i) of the return expression
translated_text_parse_ok ==
    /\ pc = "parse"
    /\ IsTranslate
    /\ Len(parsed) < Len(response[1].result)
    /\ parsed' = Append(parsed, TranslatedText_parse(response[1].result[Len(parsed) + 1]))
    /\ UNCHANGED <<pc, op, args, ids, parsedText, peer, request, response, ret,
                   err, fault, resolveCalls, requestsBuilt, invokeCalls, prev,
                   originVars>>

translated_text_parse_raises ==
    /\ pc = "parse"
    /\ IsTranslate
    /\ Len(parsed) < Len(response[1].result)
    /\ \E e \in ParseErrors : Raise("parse", e)
    /\ UNCHANGED <<op, args, ids, parsedText, peer, request, response, parsed,
                   resolveCalls, requestsBuilt, invokeCalls, prev, originVars>>

return_translated ==
    /\ pc = "parse"
    /\ IsTranslate
    /\ Len(parsed) = Len(response[1].result)
    /\ ret' = Dewrap(parsed)
    /\ pc' = "done"
    /\ UNCHANGED <<op, args, ids, parsedText, peer, request, response, parsed,
                   err, fault, resolveCalls, requestsBuilt, invokeCalls, prev,
                   originVars>>

return_invite_link ==
    /\ pc = "parse"
    /\ op = "edit_chat_invite_link"
    /\ LET users == UsersById(response[1].users)
           link == ChatInviteLink_parse(response[1].invite, users)
       IN  /\ parsed' = <<link>>
           /\ ret' = Object(link)
    /\ pc' = "done"
    /\ UNCHANGED <<op, args, ids, parsedText, peer, request, response, err,
                   fault, resolveCalls, requestsBuilt, invokeCalls, prev,
                   originVars>>

invite_link_parse_raises ==
    /\ pc = "parse"
    /\ op = "edit_chat_invite_link"
    /\ \E e \in ParseErrors : Raise("parse", e)
    /\ UNCHANGED <<op, args, ids, parsedText, peer, request, response, parsed,
                   resolveCalls, requestsBuilt, invokeCalls, prev, originVars>>

\* the coroutine is finished and its frame is dropped; the request of a
\* finished edit_chat_invite_link is kept for comparison with the call that
\* follows it
Finish ==
    /\ pc = "done"
    /\ pc' = "idle"
    /\ prev' = IF op = "edit_chat_invite_link" /\ request # None
               THEN Some([args |-> args, request |-> request[1]])
               ELSE NoPrev
    /\ op' = "none"
    /\ args' = NoArgs
    /\ ids' = <<>>
    /\ parsedText' = None
    /\ peer' = None
    /\ request' = None
    /\ response' = None
    /\ parsed' = <<>>
    /\ ret' = NoValue
    /\ err' = None
    /\ fault' = NoFault
    /\ resolveCalls' = 0
    /\ requestsBuilt' = 0
    /\ invokeCalls' = 0
    /\ UNCHANGED originVars

----------------------------------------------------------------------------
(* Specifications *)

Common ==
    \/ translate_message_text
    \/ translate_text
    \/ edit_chat_invite_link
    \/ resolve_peer_ok
    \/ resolve_peer_raises
    \/ parse_text_entities_ok
    \/ parse_text_entities_raises
    \/ build_request
    \/ invoke_edit_ok
    \/ invoke_raises
    \/ translated_text_parse_ok
    \/ translated_text_parse_raises
    \/ return_translated
    \/ return_invite_link
    \/ invite_link_parse_raises
    \/ Finish

\* the transport may answer a translation request with any result vector
Next == Common \/ invoke_translate_ok

Spec == Init /\ [][Next]_vars

\* the transport answers a translation request item by item
NextFaithful == Common \/ invoke_translate_faithful

SpecFaithful == Init /\ [][NextFaithful]_vars

----------------------------------------------------------------------------
(* The variant parser on its own: every payload, every users table *)

InitOrigin ==
    /\ pc = "idle"
    /\ op = "none"
    /\ args = NoArgs
    /\ IdleLocals
    /\ prev = NoPrev
    /\ originRaw \in {Some(r) : r \in RawOrigins}
    /\ originUsers \in UserTables
    /\ originOut = NoValue

parse_message_origin ==
    /\ originRaw # None
    /\ originOut = NoValue
    /\ originOut' = MessageOrigin_parse(originRaw[1], originUsers)
    /\ UNCHANGED <<adapterVars, originRaw, originUsers>>

NextOrigin == parse_message_origin

SpecOrigin == InitOrigin /\ [][NextOrigin]_vars

----------------------------------------------------------------------------
(* Properties *)

Returned == pc = "done" /\ err = None
TMT == op = "translate_message_text"
Results == response[1].result

C3_ListInListOut ==
    (Returned /\ TMT) =>
        /\ args.message_ids.isList => ret.kind = "list"
        /\ ret.kind = "object" => ~args.message_ids.isList

TwoEdits ==
    /\ op = "edit_chat_invite_link"
    /\ request # None
    /\ prev # NoPrev

\* C5: the caller intents for expire_date (left out, clear, a value) give
\* different expire_date fields in the raw request; in particular the request
\* that clears the expiration differs from the one that leaves it alone.
C5_ExpireIntentsDistinguishable ==
    (TwoEdits /\ args.expire_intent # prev[1].args.expire_intent) =>
        request[1].expire_date # prev[1].request.expire_date

\* C6: member_limit is forwarded as usage_limit as it is: 0 is sent as 0,
\* None as an absent field, any other integer unchanged, and requests built
\* from different member_limit values differ in usage_limit.
C6_MemberLimitVerbatim ==
    (op = "edit_chat_invite_link" /\ request # None) =>
        /\ args.member_limit = Some(0) => request[1].usage_limit = Some(0)
        /\ args.member_limit = None => request[1].usage_limit = None
        /\ request[1].usage_limit = args.member_limit
        /\ (prev # NoPrev /\ args.member_limit # prev[1].args.member_limit) =>
              request[1].usage_limit # prev[1].request.usage_limit

C6_Witness ==
    /\ TwoEdits
    /\ args.member_limit = Some(0)
    /\ prev[1].args.member_limit = None
    /\ request[1].usage_limit = Some(0)
    /\ prev[1].request.usage_limit = None

\* C7: a finished call either returned a fully parsed result or raised the
\* error of the collaborator that failed, unchanged, and returned nothing:
\* after a resolve_peer failure invoke was not called, after an invoke
\* failure nothing was parsed, after a parse failure no partial result is
\* handed back.
C7_ResultOrPropagatedFailure ==
    pc = "done" =>
        \/ /\ err = None
           /\ fault = NoFault
           /\ ret.kind \in {"object", "list"}
           /\ IsTranslate =>
                 /\ Len(parsed) = Len(Results)
                 /\ ret.kind = "list" => Len(ret.items) = Len(Results)
        \/ /\ err # None
           /\ fault # NoFault
           /\ err = Some(fault.error)
           /\ ret = NoValue
           /\ fault.stage = "resolve" => (invokeCalls = 0 /\ request = None)
           /\ fault.stage = "invoke" => (parsed = <<>> /\ response = None)

C7_Witness ==
    /\ pc = "done"
    /\ fault.stage = "parse"
    /\ Len(parsed) >= 1
    /\ Len(parsed) < Len(Results)
    /\ ret = NoValue

C9_EveryAdapterResolvesOnce ==
    /\ pc = "done" => resolveCalls = 1
    /\ (requestsBuilt > 0 \/ invokeCalls > 0) => (resolveCalls = 1 /\ peer # None)

\* C9 amended: edit_chat_invite_link and translate_message_text call
\* resolve_peer exactly once per call, and it has completed before the
\* request is built and before invoke is called; translate_text takes no
\* chat and never calls resolve_peer.
C9_PeerAdaptersResolveOnce ==
    /\ op \in {"edit_chat_invite_link", "translate_message_text"} =>
          /\ resolveCalls <= 1
          /\ pc \in {"build", "invoke", "parse"} => (resolveCalls = 1 /\ peer # None)
          /\ pc = "done" => resolveCalls = 1
          /\ (requestsBuilt > 0 \/ invokeCalls > 0) => (resolveCalls = 1 /\ peer # None)
    /\ op = "translate_text" => (resolveCalls = 0 /\ peer = None)

C9_Witness ==
    /\ op = "edit_chat_invite_link"
    /\ pc = "parse"
    /\ resolveCalls = 1
    /\ requestsBuilt = 1
    /\ invokeCalls = 1

\* C10: a call builds at most one raw request and calls invoke at most once,
\* exactly once each when it got as far as the transport, whatever the
\* answer; translate_message_text sends every supplied id, a bare id as a
\* one-element list, and translate_text sends one TextWithEntities.
C10_OneRequestOneInvoke ==
    /\ requestsBuilt <= 1
    /\ invokeCalls <= 1
    /\ invokeCalls <= requestsBuilt
    /\ (response # None \/ fault.stage \in {"invoke", "parse"}) =>
          (requestsBuilt = 1 /\ invokeCalls = 1)
    /\ (TMT /\ request # None) =>
          /\ request[1].text = <<>>
          /\ args.message_ids.isList => request[1].id = args.message_ids.items
          /\ ~args.message_ids.isList => request[1].id = <<args.message_ids.int>>
    /\ (op = "translate_text" /\ request # None) =>
          /\ Len(request[1].text) = 1
          /\ request[1].id = <<>>

C10_Witness ==
    /\ pc = "done"
    /\ TMT
    /\ fault.stage = "invoke"
    /\ invokeCalls = 1
    /\ Len(request[1].id) = 2

====
